---------------------------- MODULE Spec2Model ----------------------------
(***************************************************************************)
(* A model of the Gemma3nService placeholder inference service             *)
(* (services/gemma3nService.ts), of the useGemma3n hook and of the         *)
(* Gemma3nChat component that consume its default instance.                *)
(*                                                                         *)
(* Text is modelled character by character: a JavaScript string is a       *)
(* sequence of one-character strings, so that substring, includes,         *)
(* toLowerCase, split and join are computed as the code computes them.     *)
(* Error messages, which the code only builds and throws, are kept as      *)
(* TLA+ strings.                                                           *)
(***************************************************************************)
EXTENDS Integers, Sequences, FiniteSets, TLC

(***************************************************************************)
(* String literals of the source.                                          *)
(***************************************************************************)

\* ios template 0, before the embedded prompt: 'Using Core ML optimization on iOS to process: "'
Head_ios_0 ==
    <<"U","s","i","n","g"," ","C","o","r","e"," ","M","L"," ","o","p","t","i",
      "m","i","z","a","t","i","o","n"," ","o","n"," ","i","O","S"," ","t","o",
      " ","p","r","o","c","e","s","s",":"," ","\"">>

\* ios template 0, after the embedded prompt: '..." Here's my analysis based on the advanced neural processing capabilities.'
Tail_ios_0 ==
    <<".",".",".","\""," ","H","e","r","e","'","s"," ","m","y"," ","a","n","a",
      "l","y","s","i","s"," ","b","a","s","e","d"," ","o","n"," ","t","h","e",
      " ","a","d","v","a","n","c","e","d"," ","n","e","u","r","a","l"," ","p",
      "r","o","c","e","s","s","i","n","g"," ","c","a","p","a","b","i","l","i",
      "t","i","e","s",".">>

\* ios template 1, before the embedded prompt: 'iOS neural engine processing complete. Regarding "'
Head_ios_1 ==
    <<"i","O","S"," ","n","e","u","r","a","l"," ","e","n","g","i","n","e"," ",
      "p","r","o","c","e","s","s","i","n","g"," ","c","o","m","p","l","e","t",
      "e","."," ","R","e","g","a","r","d","i","n","g"," ","\"">>

\* ios template 1, after the embedded prompt: '...", I can provide detailed insights using on-device intelligence.'
Tail_ios_1 ==
    <<".",".",".","\"",","," ","I"," ","c","a","n"," ","p","r","o","v","i","d",
      "e"," ","d","e","t","a","i","l","e","d"," ","i","n","s","i","g","h","t",
      "s"," ","u","s","i","n","g"," ","o","n","-","d","e","v","i","c","e"," ",
      "i","n","t","e","l","l","i","g","e","n","c","e",".">>

\* ios template 2, before the embedded prompt: 'Core ML inference suggests that "'
Head_ios_2 ==
    <<"C","o","r","e"," ","M","L"," ","i","n","f","e","r","e","n","c","e"," ",
      "s","u","g","g","e","s","t","s"," ","t","h","a","t"," ","\"">>

\* ios template 2, after the embedded prompt: '..." involves several key factors that I'll explain using iOS-optimized processing.'
Tail_ios_2 ==
    <<".",".",".","\""," ","i","n","v","o","l","v","e","s"," ","s","e","v","e",
      "r","a","l"," ","k","e","y"," ","f","a","c","t","o","r","s"," ","t","h",
      "a","t"," ","I","'","l","l"," ","e","x","p","l","a","i","n"," ","u","s",
      "i","n","g"," ","i","O","S","-","o","p","t","i","m","i","z","e","d"," ",
      "p","r","o","c","e","s","s","i","n","g",".">>

\* android template 0, before the embedded prompt: 'Android TensorFlow Lite processing: "'
Head_android_0 ==
    <<"A","n","d","r","o","i","d"," ","T","e","n","s","o","r","F","l","o","w",
      " ","L","i","t","e"," ","p","r","o","c","e","s","s","i","n","g",":"," ",
      "\"">>

\* android template 0, after the embedded prompt: '..." Your query has been analyzed using Google's mobile ML optimization.'
Tail_android_0 ==
    <<".",".",".","\""," ","Y","o","u","r"," ","q","u","e","r","y"," ","h","a",
      "s"," ","b","e","e","n"," ","a","n","a","l","y","z","e","d"," ","u","s",
      "i","n","g"," ","G","o","o","g","l","e","'","s"," ","m","o","b","i","l",
      "e"," ","M","L"," ","o","p","t","i","m","i","z","a","t","i","o","n",".">>

\* android template 1, before the embedded prompt: 'Using Android ML Kit for "'
Head_android_1 ==
    <<"U","s","i","n","g"," ","A","n","d","r","o","i","d"," ","M","L"," ","K",
      "i","t"," ","f","o","r"," ","\"">>

\* android template 1, after the embedded prompt: '..." Here's what the optimized inference reveals about this topic.'
Tail_android_1 ==
    <<".",".",".","\""," ","H","e","r","e","'","s"," ","w","h","a","t"," ","t",
      "h","e"," ","o","p","t","i","m","i","z","e","d"," ","i","n","f","e","r",
      "e","n","c","e"," ","r","e","v","e","a","l","s"," ","a","b","o","u","t",
      " ","t","h","i","s"," ","t","o","p","i","c",".">>

\* android template 2, before the embedded prompt: 'TensorFlow Lite mobile inference complete for "'
Head_android_2 ==
    <<"T","e","n","s","o","r","F","l","o","w"," ","L","i","t","e"," ","m","o",
      "b","i","l","e"," ","i","n","f","e","r","e","n","c","e"," ","c","o","m",
      "p","l","e","t","e"," ","f","o","r"," ","\"">>

\* android template 2, after the embedded prompt: '..." Let me share the processed insights.'
Tail_android_2 ==
    <<".",".",".","\""," ","L","e","t"," ","m","e"," ","s","h","a","r","e"," ",
      "t","h","e"," ","p","r","o","c","e","s","s","e","d"," ","i","n","s","i",
      "g","h","t","s",".">>

\* web template 0, before the embedded prompt: 'Web ONNX.js processing: "'
Head_web_0 ==
    <<"W","e","b"," ","O","N","N","X",".","j","s"," ","p","r","o","c","e","s",
      "s","i","n","g",":"," ","\"">>

\* web template 0, after the embedded prompt: '..." Browser-based inference provides these insights about your question.'
Tail_web_0 ==
    <<".",".",".","\""," ","B","r","o","w","s","e","r","-","b","a","s","e","d",
      " ","i","n","f","e","r","e","n","c","e"," ","p","r","o","v","i","d","e",
      "s"," ","t","h","e","s","e"," ","i","n","s","i","g","h","t","s"," ","a",
      "b","o","u","t"," ","y","o","u","r"," ","q","u","e","s","t","i","o","n",
      ".">>

\* web template 1, before the embedded prompt: 'Using optimized web inference for "'
Head_web_1 ==
    <<"U","s","i","n","g"," ","o","p","t","i","m","i","z","e","d"," ","w","e",
      "b"," ","i","n","f","e","r","e","n","c","e"," ","f","o","r"," ","\"">>

\* web template 1, after the embedded prompt: '..." Here's what the client-side model analysis reveals.'
Tail_web_1 ==
    <<".",".",".","\""," ","H","e","r","e","'","s"," ","w","h","a","t"," ","t",
      "h","e"," ","c","l","i","e","n","t","-","s","i","d","e"," ","m","o","d",
      "e","l"," ","a","n","a","l","y","s","i","s"," ","r","e","v","e","a","l",
      "s",".">>

\* web template 2, before the embedded prompt: 'WebAssembly-accelerated processing of "'
Head_web_2 ==
    <<"W","e","b","A","s","s","e","m","b","l","y","-","a","c","c","e","l","e",
      "r","a","t","e","d"," ","p","r","o","c","e","s","s","i","n","g"," ","o",
      "f"," ","\"">>

\* web template 2, after the embedded prompt: '..." provides these comprehensive insights.'
Tail_web_2 ==
    <<".",".",".","\""," ","p","r","o","v","i","d","e","s"," ","t","h","e","s",
      "e"," ","c","o","m","p","r","e","h","e","n","s","i","v","e"," ","i","n",
      "s","i","g","h","t","s",".">>

\* ' The '
SufHowPre ==
    <<" ","T","h","e"," ">>

\* ' platform enables step-by-step analysis with optimized inference speeds.'
SufHowPost ==
    <<" ","p","l","a","t","f","o","r","m"," ","e","n","a","b","l","e","s"," ",
      "s","t","e","p","-","b","y","-","s","t","e","p"," ","a","n","a","l","y",
      "s","i","s"," ","w","i","t","h"," ","o","p","t","i","m","i","z","e","d",
      " ","i","n","f","e","r","e","n","c","e"," ","s","p","e","e","d","s",".">>

\* ' '
SufWhatPre ==
    <<" ">>

\* ' hardware acceleration provides comprehensive understanding.'
SufWhatPost ==
    <<" ","h","a","r","d","w","a","r","e"," ","a","c","c","e","l","e","r","a",
      "t","i","o","n"," ","p","r","o","v","i","d","e","s"," ","c","o","m","p",
      "r","e","h","e","n","s","i","v","e"," ","u","n","d","e","r","s","t","a",
      "n","d","i","n","g",".">>

\* ' Platform-specific optimization on '
SufWhyPre ==
    <<" ","P","l","a","t","f","o","r","m","-","s","p","e","c","i","f","i","c",
      " ","o","p","t","i","m","i","z","a","t","i","o","n"," ","o","n"," ">>

\* ' reveals the underlying reasoning patterns.'
SufWhyPost ==
    <<" ","r","e","v","e","a","l","s"," ","t","h","e"," ","u","n","d","e","r",
      "l","y","i","n","g"," ","r","e","a","s","o","n","i","n","g"," ","p","a",
      "t","t","e","r","n","s",".">>

\* ' Native '
SufDefPre ==
    <<" ","N","a","t","i","v","e"," ">>

\* ' processing ensures optimal performance and accuracy.'
SufDefPost ==
    <<" ","p","r","o","c","e","s","s","i","n","g"," ","e","n","s","u","r","e",
      "s"," ","o","p","t","i","m","a","l"," ","p","e","r","f","o","r","m","a",
      "n","c","e"," ","a","n","d"," ","a","c","c","u","r","a","c","y",".">>

\* 'how'
KwHow ==
    <<"h","o","w">>

\* 'what'
KwWhat ==
    <<"w","h","a","t">>

\* 'why'
KwWhy ==
    <<"w","h","y">>

\* 'ios'
TxtIos ==
    <<"i","o","s">>

\* 'android'
TxtAndroid ==
    <<"a","n","d","r","o","i","d">>

\* 'web'
TxtWeb ==
    <<"w","e","b">>

\* '<start_of_turn>'
TurnOpen ==
    <<"<","s","t","a","r","t","_","o","f","_","t","u","r","n",">">>

\* '<end_of_turn>\n'
TurnClose ==
    <<"<","e","n","d","_","o","f","_","t","u","r","n",">","\n">>

\* '<start_of_turn>user\n'
UserTurn ==
    <<"<","s","t","a","r","t","_","o","f","_","t","u","r","n",">","u","s","e",
      "r","\n">>

\* '<start_of_turn>model\n'
ModelTurn ==
    <<"<","s","t","a","r","t","_","o","f","_","t","u","r","n",">","m","o","d",
      "e","l","\n">>

\* 'ABCDEFGHIJKLMNOPQRSTUVWXYZ'
UpperAlpha ==
    <<"A","B","C","D","E","F","G","H","I","J","K","L","M","N","O","P","Q","R",
      "S","T","U","V","W","X","Y","Z">>

\* 'abcdefghijklmnopqrstuvwxyz'
LowerAlpha ==
    <<"a","b","c","d","e","f","g","h","i","j","k","l","m","n","o","p","q","r",
      "s","t","u","v","w","x","y","z">>

(***************************************************************************)
(* JavaScript string operations, on sequences of characters.               *)
(***************************************************************************)

Min(a, b) == IF a < b THEN a ELSE b

\* s.substring(0, n): the first n characters, all of s when s is shorter.
substring(s, n) == SubSeq(s, 1, Min(n, Len(s)))

\* s.includes(sub)
includes(s, sub) ==
    \E i \in 1..(Len(s) - Len(sub) + 1) : SubSeq(s, i, i + Len(sub) - 1) = sub

\* The number of places at which sub occurs in s.
Occurrences(s, sub) ==
    Cardinality({i \in 1..(Len(s) - Len(sub) + 1) :
                    SubSeq(s, i, i + Len(sub) - 1) = sub})

toLowerChar(c) ==
    IF \E k \in 1..Len(UpperAlpha) : UpperAlpha[k] = c
    THEN LowerAlpha[CHOOSE k \in 1..Len(UpperAlpha) : UpperAlpha[k] = c]
    ELSE c

toUpperChar(c) ==
    IF \E k \in 1..Len(LowerAlpha) : LowerAlpha[k] = c
    THEN UpperAlpha[CHOOSE k \in 1..Len(LowerAlpha) : LowerAlpha[k] = c]
    ELSE c

\* s.toLowerCase()
toLowerCase(s) == [i \in 1..Len(s) |-> toLowerChar(s[i])]

\* s.charAt(0).toUpperCase() + s.slice(1)
capitalize(s) ==
    IF s = <<>> THEN <<>> ELSE <<toUpperChar(s[1])>> \o SubSeq(s, 2, Len(s))

\* s.trim()
trim(s) ==
    LET white == {" ", "\n", "\t"}
        inked == {i \in 1..Len(s) : s[i] \notin white}
    IN  IF inked = {} THEN <<>>
        ELSE SubSeq(s, CHOOSE i \in inked : \A j \in inked : i <= j,
                       CHOOSE i \in inked : \A j \in inked : j <= i)

\* As split, were the separator /\s+/: white space of any kind and length
\* separates, and no piece between two separators is empty.
splitWhitespace(s) ==
    LET white   == {" ", "\n", "\t"}
        starts  == {i \in 1..Len(s) : s[i] \notin white /\ (i = 1 \/ s[i - 1] \in white)}
        n       == Cardinality(starts)
        from(k) == CHOOSE i \in starts : Cardinality({j \in starts : j < i}) = k - 1
        to(k)   == CHOOSE j \in from(k)..Len(s) :
                       /\ \A m \in from(k)..j : s[m] \notin white
                       /\ (j = Len(s) \/ s[j + 1] \in white)
    IN  [k \in 1..n |-> SubSeq(s, from(k), to(k))]

\* s.split(' '): the pieces between single space characters.  Two adjacent
\* spaces give an empty piece; other white space does not separate.
split(s) ==
    LET spaces  == {i \in 1..Len(s) : s[i] = " "}
        n       == Cardinality(spaces)
        pos(k)  == CHOOSE i \in spaces : Cardinality({j \in spaces : j < i}) = k - 1
        from(k) == IF k = 1 THEN 1 ELSE pos(k - 1) + 1
        to(k)   == IF k = n + 1 THEN Len(s) ELSE pos(k) - 1
    IN  [k \in 1..(n + 1) |-> SubSeq(s, from(k), to(k))]

\* words.join(' ')
RECURSIVE join(_)
join(words) ==
    IF words = <<>> THEN <<>>
    ELSE IF Len(words) = 1 THEN words[1]
    ELSE words[1] \o <<" ">> \o join(Tail(words))

(***************************************************************************)
(* Platform detection.  The environment getPlatform reads: the Hermes      *)
(* marker on the global object, whether navigator exists, its userAgent    *)
(* (the empty sequence stands for an absent or empty one, which the code   *)
(* folds together with || ''), and whether window and document exist.      *)
(***************************************************************************)

UA_iPhone  == <<"i","P","h","o","n","e">>
UA_iPad    == <<"i","P","a","d">>
UA_Android == <<"A","n","d","r","o","i","d">>
UA_Other   == <<"M","o","z">>
UA_Both    == UA_Android \o <<" ">> \o UA_iPhone

UserAgents == {<<>>, UA_iPhone, UA_iPad, UA_Android, UA_Other, UA_Both}

Envs == [hermes : BOOLEAN, navigator : BOOLEAN, userAgent : UserAgents,
         window : BOOLEAN, document : BOOLEAN]

\* As getPlatform, were 'Android' looked for before 'iPhone' and 'iPad'.
getPlatformAndroidFirst(env) ==
    IF env.hermes
    THEN IF env.navigator /\ includes(env.userAgent, UA_Android)
         THEN "android"
         ELSE "ios"
    ELSE "web"

getPlatform(env) ==
    IF env.hermes
    THEN IF env.navigator /\ (includes(env.userAgent, UA_iPhone)
                              \/ includes(env.userAgent, UA_iPad))
         THEN "ios"
         ELSE IF env.navigator /\ includes(env.userAgent, UA_Android)
         THEN "android"
         ELSE "ios"
    ELSE IF env.window /\ env.document
    THEN "web"
    ELSE "web"

Platforms == {"ios", "android", "web"}

(***************************************************************************)
(* The configuration.  A caller's configuration is a record holding the    *)
(* fields the caller supplied, so an omitted field is a field outside the  *)
(* record's domain.  temperature is kept in tenths (0.7 is 7).             *)
(***************************************************************************)

DefaultConfig ==
    [maxTokens |-> 512, temperature |-> 7, topK |-> 50, quantized |-> TRUE]

\* As MergeConfig, were the spread written { ...config, ...DefaultConfig }.
MergeConfigDefaultsLast(config) ==
    [f \in (DOMAIN DefaultConfig) \union (DOMAIN config) |->
        IF f \in DOMAIN DefaultConfig THEN DefaultConfig[f] ELSE config[f]]

\* { ...DefaultConfig, ...config }: a field of config overrides the default.
MergeConfig(config) ==
    [f \in (DOMAIN DefaultConfig) \union (DOMAIN config) |->
        IF f \in DOMAIN config THEN config[f] ELSE DefaultConfig[f]]

\* The default argument of the constructor.
DefaultCtorArg == [modelSize |-> "E2B"]

(***************************************************************************)
(* Text generation.                                                        *)
(***************************************************************************)

platformResponses ==
    [ios     |-> << <<Head_ios_0, Tail_ios_0>>,
                    <<Head_ios_1, Tail_ios_1>>,
                    <<Head_ios_2, Tail_ios_2>> >>,
     android |-> << <<Head_android_0, Tail_android_0>>,
                    <<Head_android_1, Tail_android_1>>,
                    <<Head_android_2, Tail_android_2>> >>,
     web     |-> << <<Head_web_0, Tail_web_0>>,
                    <<Head_web_1, Tail_web_1>>,
                    <<Head_web_2, Tail_web_2>> >>]

\* The number of characters of the prompt each template embeds.
PromptCut == <<40, 35, 45>>

\* The platform name as it is spliced into a template literal.
PlatformText(platform) ==
    CASE platform = "ios"     -> TxtIos
      [] platform = "android" -> TxtAndroid
      [] platform = "web"     -> TxtWeb

\* As responsesFor, were the list not keyed by the platform.
responsesWeb(platform) == platformResponses.web

\* platformResponses[platform] || platformResponses.web
responsesFor(platform) ==
    IF platform \in DOMAIN platformResponses
    THEN platformResponses[platform]
    ELSE platformResponses.web

\* Math.floor(Math.random() * responses.length)
Picks == 0..(Len(platformResponses.web) - 1)

\* As contextualSuffix, were the three tests separate if statements: the
\* sentence of every keyword the prompt contains is appended.
contextualSuffixCumulative(platform, prompt) ==
    LET promptLower == toLowerCase(prompt)
        p == PlatformText(platform)
        how  == IF includes(promptLower, KwHow)
                THEN SufHowPre \o p \o SufHowPost ELSE <<>>
        what == IF includes(promptLower, KwWhat)
                THEN SufWhatPre \o capitalize(p) \o SufWhatPost ELSE <<>>
        why  == IF includes(promptLower, KwWhy)
                THEN SufWhyPre \o p \o SufWhyPost ELSE <<>>
    IN  IF how \o what \o why = <<>> THEN SufDefPre \o p \o SufDefPost
        ELSE how \o what \o why

\* The sentence appended to the template, chosen by the first keyword the
\* lower-cased prompt contains.
contextualSuffix(platform, prompt) ==
    LET promptLower == toLowerCase(prompt)
        p == PlatformText(platform)
    IN  IF includes(promptLower, KwHow) THEN SufHowPre \o p \o SufHowPost
        ELSE IF includes(promptLower, KwWhat)
             THEN SufWhatPre \o capitalize(p) \o SufWhatPost
        ELSE IF includes(promptLower, KwWhy) THEN SufWhyPre \o p \o SufWhyPost
        ELSE SufDefPre \o p \o SufDefPost

\* As generateWithNativeModel, were options.maxTokens applied as a limit
\* on the length of the response.
generateWithNativeModelCapped(platform, prompt, options, pick) ==
    LET template == responsesFor(platform)[pick + 1]
        response == template[1] \o substring(prompt, PromptCut[pick + 1])
                    \o template[2] \o contextualSuffix(platform, prompt)
    IN  IF "maxTokens" \in DOMAIN options
        THEN substring(response, options.maxTokens)
        ELSE response

\* generateWithNativeModel(prompt, options) on a service whose handle is
\* tagged platform, with Math.random giving template number pick.
generateWithNativeModel(platform, prompt, options, pick) ==
    LET responses == responsesFor(platform)
        template  == responses[pick + 1]
        response  == template[1] \o substring(prompt, PromptCut[pick + 1])
                     \o template[2]
    IN  response \o contextualSuffix(platform, prompt)

\* The values generateTextStream yields for a full response, in order:
\* words.slice(0, i + 1).join(' ') for i = 0 .. words.length - 1.
streamPrefix(words, i) == join(SubSeq(words, 1, i))

(***************************************************************************)
(* The chat template.                                                      *)
(***************************************************************************)

Roles == {"system", "user", "assistant"}

\* One turn of formatChatPrompt's switch; a role outside the three cases
\* adds nothing.
formatTurn(message) ==
    CASE message.role = "system"    -> UserTurn \o message.content \o TurnClose
      [] message.role = "user"      -> UserTurn \o message.content \o TurnClose
      [] message.role = "assistant" -> ModelTurn \o message.content \o TurnClose
      [] OTHER                      -> <<>>

RECURSIVE formatTurns(_)
formatTurns(messages) ==
    IF messages = <<>> THEN <<>>
    ELSE formatTurn(Head(messages)) \o formatTurns(Tail(messages))

\* As formatChatPrompt, without the turn left open for the model.
formatChatPromptClosed(messages) == formatTurns(messages)

formatChatPrompt(messages) == formatTurns(messages) \o ModelTurn

(***************************************************************************)
(* The service instance and the calls in flight on it.                     *)
(*                                                                         *)
(* textGenerator, isModelLoaded and config are the three fields of a       *)
(* Gemma3nService.  calls[c] is the call caller c has outstanding: its     *)
(* operation, the await it is suspended at (pc) and its locals; a settled  *)
(* call keeps its result until the caller takes it.  life is history the   *)
(* code does not keep: "fresh" until initializeModel is first called,      *)
(* "unloaded" from an unloadModel that discarded a handle until the next   *)
(* initializeModel call, "used" otherwise.  ui holds the React state of    *)
(* the consumers of the default instance.                                  *)
(***************************************************************************)
VARIABLES textGenerator, isModelLoaded, config, ctorArg, calls, life, ui

svc  == <<textGenerator, isModelLoaded, config>>
vars == <<textGenerator, isModelLoaded, config, ctorArg, calls, life, ui>>

\* The number of callers that may have a call in flight at once.
MaxCalls == 2

Null == <<>>

\* No options argument, and one that sets every field the code accepts.
NoOptions   == <<>>
SomeOptions == [maxTokens |-> 100, temperature |-> 7, topK |-> 40, stream |-> TRUE]
Options     == {NoOptions, SomeOptions}

Idle == [op |-> "none", pc |-> "idle"]

NotLoadedError == "Model not loaded. Call initializeModel() first."
InitErrorPrefix == "Failed to initialize Gemma 3n: "
GenErrorPrefix == "Text generation failed: "
NullHandleError == "TypeError: Cannot read properties of null (reading 'generateText')"
ImageError == "Image analysis not yet implemented. Requires multimodal Gemma 3n setup."
AudioError == "Audio processing not yet implemented. Requires audio-enabled Gemma 3n setup."

\* What a step of initializeModel may throw: the platform detection, or the
\* timer the platform initializer waits on.
PlatformFault == "Error: platform detection failed"
TimerFault    == "Error: timer failed"

\* new Gemma3nService(arg): the fields of a fresh instance.
Gemma3nService(arg) ==
    [textGenerator |-> Null, isModelLoaded |-> FALSE, config |-> MergeConfig(arg)]

\* getModelInfo()
getModelInfo ==
    [isLoaded |-> isModelLoaded, modelSize |-> config.modelSize, config |-> config]

\* As notLoaded, were the guard to test the handle alone.
notLoadedHandleOnly == textGenerator = Null

\* The guard of generateText and generateTextStream.
notLoaded == textGenerator = Null \/ ~isModelLoaded

Settle(c, record) == calls' = [calls EXCEPT ![c] = record]

(***************************************************************************)
(* initializeModel.  The call runs to the await of the platform            *)
(* initializer's timer; the timer's continuation installs the handle; the  *)
(* continuation of initializeModel, one await later, sets the flag.        *)
(***************************************************************************)

initializeModel(c, env) ==
    /\ calls[c] = Idle
    /\ calls' = [calls EXCEPT ![c] = [op |-> "initializeModel", pc |-> "delay",
                                      platform |-> getPlatform(env), env |-> env]]
    /\ life' = "used"
    /\ UNCHANGED <<svc, ctorArg, ui>>

\* getPlatform throws: the catch block wraps the error and rethrows.
initializeModelThrows(c) ==
    /\ calls[c] = Idle
    /\ Settle(c, [op |-> "initializeModel", pc |-> "rejected",
                  error |-> InitErrorPrefix \o PlatformFault])
    /\ life' = "used"
    /\ UNCHANGED <<svc, ctorArg, ui>>

\* initializeIOSModel / initializeAndroidModel / initializeWebModel after
\* the timer: the handle, tagged with the platform, is installed.
installHandle(c) ==
    /\ calls[c].op = "initializeModel" /\ calls[c].pc = "delay"
    /\ textGenerator' = [platform |-> calls[c].platform]
    /\ calls' = [calls EXCEPT ![c].pc = "installed"]
    /\ UNCHANGED <<isModelLoaded, config, ctorArg, life, ui>>

\* As initializerThrows, were the flag set in a finally block.
initializerThrowsSetsLoaded(c) ==
    /\ calls[c].op = "initializeModel" /\ calls[c].pc = "delay"
    /\ isModelLoaded' = TRUE
    /\ calls' = [calls EXCEPT ![c] = [op |-> "initializeModel", pc |-> "rejected",
                                      error |-> InitErrorPrefix \o TimerFault]]
    /\ UNCHANGED <<textGenerator, config, ctorArg, life, ui>>

\* The awaited timer rejects: the platform initializer throws before it
\* installs anything, and initializeModel wraps the error and rethrows.
initializerThrows(c) ==
    /\ calls[c].op = "initializeModel" /\ calls[c].pc = "delay"
    /\ Settle(c, [op |-> "initializeModel", pc |-> "rejected",
                  error |-> InitErrorPrefix \o TimerFault])
    /\ UNCHANGED <<svc, ctorArg, life, ui>>

\* this.isModelLoaded = true, and the call returns.
setLoaded(c) ==
    /\ calls[c].op = "initializeModel" /\ calls[c].pc = "installed"
    /\ isModelLoaded' = TRUE
    /\ Settle(c, [op |-> "initializeModel", pc |-> "resolved"])
    /\ UNCHANGED <<textGenerator, config, ctorArg, life, ui>>

(***************************************************************************)
(* unloadModel: no await, so the whole call is one step.                   *)
(***************************************************************************)

\* As afterUnload, were the flag left as it is.
afterUnloadKeepsFlag(s) ==
    IF s.textGenerator # Null THEN [s EXCEPT !.textGenerator = Null] ELSE s

\* The fields of the service after unloadModel, from the fields s before.
afterUnload(s) ==
    IF s.textGenerator # Null
    THEN [s EXCEPT !.textGenerator = Null, !.isModelLoaded = FALSE]
    ELSE s

Service ==
    [textGenerator |-> textGenerator, isModelLoaded |-> isModelLoaded,
     config |-> config]

unloadModel(c) ==
    /\ calls[c] = Idle
    /\ textGenerator' = afterUnload(Service).textGenerator
    /\ isModelLoaded' = afterUnload(Service).isModelLoaded
    /\ config' = afterUnload(Service).config
    /\ Settle(c, [op |-> "unloadModel", pc |-> "resolved", had |-> textGenerator # Null])
    /\ life' = IF textGenerator # Null THEN "unloaded" ELSE life
    /\ UNCHANGED <<ctorArg, ui>>

(***************************************************************************)
(* generateText and chat.  The guard runs at the call; the generator is    *)
(* read again after the simulated delay.                                   *)
(***************************************************************************)

generateText(c, prompt, options) ==
    /\ calls[c] = Idle
    /\ IF notLoaded
       THEN Settle(c, [op |-> "generateText", pc |-> "rejected",
                       error |-> NotLoadedError, life |-> life])
       ELSE Settle(c, [op |-> "generateText", pc |-> "delay",
                       prompt |-> prompt, options |-> options])
    /\ UNCHANGED <<svc, ctorArg, life, ui>>

\* chat(messages, options): formatChatPrompt, then generateText.
chat(c, messages, options) ==
    /\ calls[c] = Idle
    /\ IF notLoaded
       THEN Settle(c, [op |-> "chat", pc |-> "rejected",
                       error |-> NotLoadedError, life |-> life])
       ELSE Settle(c, [op |-> "chat", pc |-> "delay",
                       prompt |-> formatChatPrompt(messages),
                       options |-> options, messages |-> messages])
    /\ UNCHANGED <<svc, ctorArg, life, ui>>

\* After the delay: this.textGenerator.generateText(prompt, options).  With
\* the handle gone the property read throws a TypeError, which the catch
\* block wraps.
generateTextResume(c, pick) ==
    /\ calls[c].op \in {"generateText", "chat"} /\ calls[c].pc = "delay"
    /\ IF textGenerator = Null
       THEN Settle(c, [op |-> calls[c].op, pc |-> "rejected",
                       error |-> GenErrorPrefix \o NullHandleError, life |-> life])
       ELSE Settle(c, [calls[c] EXCEPT !.pc = "resolved"]
                      @@ [value |-> generateWithNativeModel(
                                        textGenerator.platform, calls[c].prompt,
                                        calls[c].options, pick),
                          platform |-> textGenerator.platform, pick |-> pick])
    /\ UNCHANGED <<svc, ctorArg, life, ui>>

(***************************************************************************)
(* generateTextStream.  Calling an async generator function runs none of   *)
(* its body: the guard and the generation run at the first next(), with    *)
(* no await between them.  Each next() then waits and yields one prefix;   *)
(* the next() after the last prefix ends the sequence.                     *)
(***************************************************************************)

generateTextStream(c, prompt, options) ==
    /\ calls[c] = Idle
    /\ Settle(c, [op |-> "generateTextStream", pc |-> "created",
                  prompt |-> prompt, options |-> options])
    /\ UNCHANGED <<svc, ctorArg, life, ui>>

\* The first next(): the guard, the full response, its words, and the first
\* yield.  split never returns an empty list, so the loop body runs.
streamFirst(c, pick) ==
    /\ calls[c].op = "generateTextStream" /\ calls[c].pc = "created"
    /\ IF notLoaded
       THEN Settle(c, [op |-> "generateTextStream", pc |-> "rejected",
                       error |-> NotLoadedError, life |-> life])
       ELSE LET fullResponse == generateWithNativeModel(
                                    textGenerator.platform, calls[c].prompt,
                                    calls[c].options, pick)
            IN  Settle(c, [op |-> "generateTextStream", pc |-> "yielded",
                           words |-> split(fullResponse), i |-> 1,
                           value |-> streamPrefix(split(fullResponse), 1),
                           prompt |-> calls[c].prompt,
                           options |-> calls[c].options,
                           platform |-> textGenerator.platform, pick |-> pick])
    /\ UNCHANGED <<svc, ctorArg, life, ui>>

\* As streamNext, were the guard evaluated again at every next().
streamNextGuarded(c) ==
    /\ calls[c].op = "generateTextStream" /\ calls[c].pc = "yielded"
    /\ IF notLoaded
       THEN Settle(c, [op |-> "generateTextStream", pc |-> "rejected",
                       error |-> NotLoadedError, life |-> life])
       ELSE IF calls[c].i < Len(calls[c].words)
       THEN Settle(c, [calls[c] EXCEPT
                         !.i = @ + 1,
                         !.value = streamPrefix(calls[c].words, calls[c].i + 1)])
       ELSE Settle(c, [calls[c] EXCEPT !.pc = "resolved"])
    /\ UNCHANGED <<svc, ctorArg, life, ui>>

\* A later next(): the next prefix, or the end of the sequence once the
\* loop index has reached words.length.
streamNext(c) ==
    /\ calls[c].op = "generateTextStream" /\ calls[c].pc = "yielded"
    /\ IF calls[c].i < Len(calls[c].words)
       THEN Settle(c, [calls[c] EXCEPT
                         !.i = @ + 1,
                         !.value = streamPrefix(calls[c].words, calls[c].i + 1)])
       ELSE Settle(c, [calls[c] EXCEPT !.pc = "resolved"])
    /\ UNCHANGED <<svc, ctorArg, life, ui>>

(***************************************************************************)
(* The multimodal stubs throw before anything else.                        *)
(***************************************************************************)

ImageUris == {"file:///a.png", ""}
AudioTasks == {"transcribe", "translate"}

\* As analyzeImage, were it to run the guard of generateText first.
analyzeImageGuarded(c, imageUri) ==
    /\ calls[c] = Idle
    /\ calls' = [calls EXCEPT ![c] =
                    [op |-> "analyzeImage", pc |-> "rejected",
                     error |-> IF notLoaded THEN NotLoadedError ELSE ImageError,
                     life |-> life, loaded |-> isModelLoaded]]
    /\ UNCHANGED <<svc, ctorArg, life, ui>>

analyzeImage(c, imageUri) ==
    /\ calls[c] = Idle
    /\ Settle(c, [op |-> "analyzeImage", pc |-> "rejected", error |-> ImageError,
                  life |-> life, loaded |-> isModelLoaded])
    /\ UNCHANGED <<svc, ctorArg, life, ui>>

processAudio(c, task) ==
    /\ calls[c] = Idle
    /\ Settle(c, [op |-> "processAudio", pc |-> "rejected", error |-> AudioError,
                  life |-> life, loaded |-> isModelLoaded])
    /\ UNCHANGED <<svc, ctorArg, life, ui>>

(***************************************************************************)
(* The caller takes the result of a settled call, or stops iterating a     *)
(* stream; either frees the caller for its next call.                      *)
(***************************************************************************)

Settled(call) == call.pc \in {"resolved", "rejected"}

Return(c) ==
    /\ \/ Settled(calls[c])
       \/ calls[c].op = "generateTextStream" /\ calls[c].pc \in {"created", "yielded"}
    /\ calls' = [calls EXCEPT ![c] = Idle]
    /\ UNCHANGED <<svc, ctorArg, life, ui>>

(***************************************************************************)
(* Spec: one service instance, built with the default configuration, and   *)
(* MaxCalls callers whose calls overlap in any order.  Every caller calls  *)
(* initializeModel and unloadModel, the two operations that write the      *)
(* service's fields.  The other operations only read them, so calls of     *)
(* them do not affect one another, and one caller (caller 1) making them   *)
(* meets every state the lifecycle calls of all callers can produce.       *)
(***************************************************************************)

P_why == <<"W","h","y","?">>

Prompts == {P_why}

Conversations == { <<[role |-> "user", content |-> P_why]>> }

Callers == 1..MaxCalls

\* One environment for each of the three platforms: an iPhone and an
\* Android device running Hermes, and a browser.
SomeEnvs ==
    {e \in Envs : /\ e.navigator /\ e.window /\ e.document
                  /\ \/ e.hermes /\ e.userAgent \in {UA_iPhone, UA_Android}
                     \/ ~e.hermes /\ e.userAgent = UA_Other}

Init ==
    /\ ctorArg = DefaultCtorArg
    /\ textGenerator = Gemma3nService(ctorArg).textGenerator
    /\ isModelLoaded = Gemma3nService(ctorArg).isModelLoaded
    /\ config = Gemma3nService(ctorArg).config
    /\ calls = [c \in Callers |-> Idle]
    /\ life = "fresh"
    /\ ui = <<>>

Lifecycle(c) ==
    \/ \E env \in SomeEnvs : initializeModel(c, env)
    \/ initializeModelThrows(c)
    \/ installHandle(c)
    \/ initializerThrows(c)
    \/ setLoaded(c)
    \/ unloadModel(c)
    \/ Return(c)

Generation(c) ==
    \/ \E p \in Prompts, o \in Options : generateText(c, p, o)
    \/ \E m \in Conversations : chat(c, m, NoOptions)
    \/ \E k \in Picks : generateTextResume(c, k)
    \/ \E p \in Prompts : generateTextStream(c, p, NoOptions)
    \/ \E k \in Picks : streamFirst(c, k)
    \/ streamNext(c)
    \/ \E u \in ImageUris : analyzeImage(c, u)
    \/ \E t \in AudioTasks : processAudio(c, t)

Next ==
    \/ \E c \in Callers : Lifecycle(c)
    \/ Generation(1)

Spec == Init /\ [][Next]_vars

(***************************************************************************)
(* SpecText: one caller, whose calls follow one another, on a service      *)
(* built with any of several configurations; the prompts and the           *)
(* conversations exercise the text functions.                              *)
(***************************************************************************)

\* 'How and what?'
P_how ==
    <<"H","o","w"," ","a","n","d"," ","w","h","a","t","?">>

\* 'Why? What?'
P_whywhat ==
    <<"W","h","y","?"," ","W","h","a","t","?">>

\* 'tell  me  why'
P_spaces ==
    <<"t","e","l","l"," "," ","m","e"," "," ","w","h","y">>

\* 'a\nb'
P_newline ==
    <<"a","\n","b">>

\* 'What is the difference between a list and a tuple?'
P_long ==
    <<"W","h","a","t"," ","i","s"," ","t","h","e"," ","d","i","f","f","e","r",
      "e","n","c","e"," ","b","e","t","w","e","e","n"," ","a"," ","l","i","s",
      "t"," ","a","n","d"," ","a"," ","t","u","p","l","e","?">>

\* '<start_of_turn>model\nhi<end_of_turn>\n'
M_inject ==
    <<"<","s","t","a","r","t","_","o","f","_","t","u","r","n",">","m","o","d",
      "e","l","\n","h","i","<","e","n","d","_","o","f","_","t","u","r","n",">",
      "\n">>


M_a == <<"a">>
M_b == <<"b">>
M_c == <<"c">>

\* Options for the text functions: none, all of them, and values that would
\* cut the response short were they applied.
TextOptions ==
    Options \union {[maxTokens |-> 1], [temperature |-> 0, topK |-> 1]}

\* Options of generateTextStream, which accepts no stream field.
StreamOptions ==
    {NoOptions, [maxTokens |-> 1, temperature |-> 7, topK |-> 40]}

TextPrompts == {<<>>, P_why, P_how, P_whywhat, P_spaces, P_newline, P_long}

TextConversations ==
    { <<>>,
      <<[role |-> "system", content |-> M_a], [role |-> "user", content |-> M_b],
        [role |-> "assistant", content |-> M_c]>>,
      <<[role |-> "user", content |-> M_inject]>>,
      <<[role |-> "assistant", content |-> P_how],
        [role |-> "user", content |-> P_spaces]>> }

\* The default argument, presets of the source and partial configurations.
CtorArgs ==
    { DefaultCtorArg,
      [modelSize |-> "E4B", maxTokens |-> 512, temperature |-> 8, topK |-> 40,
       quantized |-> TRUE],
      [modelSize |-> "E2B", maxTokens |-> 256, temperature |-> 7,
       quantized |-> TRUE],
      [modelSize |-> "E4B", quantized |-> FALSE],
      [modelSize |-> "E2B", topK |-> 1] }

InitText ==
    /\ ctorArg \in CtorArgs
    /\ textGenerator = Gemma3nService(ctorArg).textGenerator
    /\ isModelLoaded = Gemma3nService(ctorArg).isModelLoaded
    /\ config = Gemma3nService(ctorArg).config
    /\ calls = [c \in {1} |-> Idle]
    /\ life = "fresh"
    /\ ui = <<>>

NextText ==
    \/ \E env \in SomeEnvs : initializeModel(1, env)
    \/ installHandle(1)
    \/ setLoaded(1)
    \/ unloadModel(1)
    \/ Return(1)
    \/ \E p \in TextPrompts, o \in TextOptions : generateText(1, p, o)
    \/ \E m \in TextConversations : chat(1, m, NoOptions)
    \/ \E k \in Picks : generateTextResume(1, k)
    \/ \E p \in TextPrompts, o \in StreamOptions : generateTextStream(1, p, o)
    \/ \E k \in Picks : streamFirst(1, k)
    \/ streamNext(1)

SpecText == InitText /\ [][NextText]_vars

(***************************************************************************)
(* SpecUI: the consumers of the default instance, mounted together: the    *)
(* useGemma3n hook (its call of the service is caller 1's) and the         *)
(* Gemma3nChat component (caller 2's).  ui.hook and ui.chat hold their     *)
(* React state.  effect says that the consumer's effect is due: React runs *)
(* an effect after the mount and after every render in which one of its    *)
(* dependencies changed.  Some fields are history the code does not keep:  *)
(* failed, set when a load of the consumer failed, and the hook's          *)
(* unloaded, set when its unloadModel has run, both cleared when a caller  *)
(* asks the hook to load; trigger, which says whether the last load        *)
(* was started by the effect or by a caller; alert, the last message the   *)
(* component passed to onError and Alert.alert; and unloaded, set when the *)
(* hook's unloadModel runs after the component has loaded.                 *)
(***************************************************************************)

\* The configuration SimpleGemmaExample passes to the hook.
ExampleConfig ==
    [modelSize |-> "E2B", maxTokens |-> 256, temperature |-> 7, quantized |-> TRUE]

\* The configuration AIScreen passes to Gemma3nChat.
ScreenConfig ==
    [modelSize |-> "E2B", maxTokens |-> 256, temperature |-> 7, topK |-> 50,
     quantized |-> TRUE]

LoadModelErrorPrefix == "Failed to load model: Error: "
\* 'Hello! I'm Gemma 3n, your local AI assistant. How can I help you today?'
WelcomeMessage ==
    <<"H","e","l","l","o","!"," ","I","'","m"," ","G","e","m","m","a"," ","3",
      "n",","," ","y","o","u","r"," ","l","o","c","a","l"," ","A","I"," ","a",
      "s","s","i","s","t","a","n","t","."," ","H","o","w"," ","c","a","n"," ",
      "I"," ","h","e","l","p"," ","y","o","u"," ","t","o","d","a","y","?">>

\* 'Chat cleared! How can I help you?'
ClearedMessage ==
    <<"C","h","a","t"," ","c","l","e","a","r","e","d","!"," ","H","o","w"," ",
      "c","a","n"," ","I"," ","h","e","l","p"," ","y","o","u","?">>

\* 'Sorry, I encountered an error while processing your request. Please try again.'
SorryMessage ==
    <<"S","o","r","r","y",","," ","I"," ","e","n","c","o","u","n","t","e","r",
      "e","d"," ","a","n"," ","e","r","r","o","r"," ","w","h","i","l","e"," ",
      "p","r","o","c","e","s","s","i","n","g"," ","y","o","u","r"," ","r","e",
      "q","u","e","s","t","."," ","P","l","e","a","s","e"," ","t","r","y"," ",
      "a","g","a","i","n",".">>

GenerateResponseErrorPrefix == "Failed to generate response: Error: "

\* Object.assign(gemma3nService, new Gemma3nService(cfg)), done only when the
\* consumer was given a config: the fields of the service afterwards.
Reconfigured(cfg) == IF cfg = Null THEN Service ELSE Gemma3nService(cfg)

\* gemma3nService.initializeModel() run up to its first await: suspended at
\* the timer of a platform's initializer, or rejected by a throw before it.
InitializeOutcomes ==
    { [op |-> "initializeModel", pc |-> "delay", platform |-> getPlatform(env),
       env |-> env] : env \in SomeEnvs }
    \union { [op |-> "initializeModel", pc |-> "rejected",
              error |-> InitErrorPrefix \o PlatformFault] }

\* The hook's loadModel up to its await, past the guard of its first line.
loadModel(trigger, outcome) ==
    /\ ~ui.hook.isLoaded /\ ~ui.hook.isLoading
    /\ ui' = [ui EXCEPT !.hook.isLoading = TRUE,
                        !.hook.error = Null,
                        !.hook.effect = TRUE,
                        !.hook.trigger = trigger,
                        !.hook.failed = IF trigger = "caller" THEN FALSE ELSE @,
                        !.hook.unloaded = IF trigger = "caller" THEN FALSE ELSE @]
    /\ textGenerator' = Reconfigured(ui.hook.config).textGenerator
    /\ isModelLoaded' = Reconfigured(ui.hook.config).isModelLoaded
    /\ config' = Reconfigured(ui.hook.config).config
    /\ ctorArg' = IF ui.hook.config = Null THEN ctorArg ELSE ui.hook.config
    /\ calls' = [calls EXCEPT ![1] = outcome]
    /\ life' = "used"

\* The hook's auto-load effect.
useGemma3nEffect ==
    /\ ui.hook.effect
    /\ IF ui.hook.autoLoad /\ ~ui.hook.isLoaded /\ ~ui.hook.isLoading
       THEN \E outcome \in InitializeOutcomes : loadModel("effect", outcome)
       ELSE /\ ui' = [ui EXCEPT !.hook.effect = FALSE]
            /\ UNCHANGED <<svc, ctorArg, calls, life>>

\* A caller of the hook calls the loadModel it returned (handleLoadModel of
\* SimpleGemmaExample).  React runs the effects that are due before it
\* handles an event.
handleLoadModel ==
    /\ ~ui.hook.effect
    /\ \E outcome \in InitializeOutcomes : loadModel("caller", outcome)

\* The rest of the hook's loadModel, once the service's call has settled.
loadModelSettled ==
    /\ calls[1].op = "initializeModel" /\ Settled(calls[1])
    /\ ui' = IF calls[1].pc = "resolved"
             THEN [ui EXCEPT !.hook.modelInfo = <<getModelInfo>>,
                             !.hook.isLoaded = TRUE,
                             !.hook.isLoading = FALSE,
                             !.hook.effect = TRUE]
             ELSE [ui EXCEPT !.hook.error = <<calls[1].error>>,
                             !.hook.isLoading = FALSE,
                             !.hook.effect = TRUE,
                             !.hook.failed = TRUE]
    /\ calls' = [calls EXCEPT ![1] = Idle]
    /\ UNCHANGED <<svc, ctorArg, life>>

\* The hook's unloadModel, past its guard; the service's unloadModel has no
\* await of its own, and the setters after it run in the same tick.
useGemma3nUnloadModel ==
    /\ ~ui.hook.effect
    /\ ui.hook.isLoaded
    /\ textGenerator' = afterUnload(Service).textGenerator
    /\ isModelLoaded' = afterUnload(Service).isModelLoaded
    /\ config' = afterUnload(Service).config
    /\ life' = IF textGenerator # Null THEN "unloaded" ELSE life
    /\ ui' = [ui EXCEPT !.hook.isLoaded = FALSE,
                        !.hook.modelInfo = Null,
                        !.hook.error = Null,
                        !.hook.effect = TRUE,
                        !.hook.unloaded = TRUE,
                        !.chat.unloaded = ui.chat.isModelLoaded]
    /\ UNCHANGED <<ctorArg, calls>>

\* The component's mount effect, which calls the component's initializeModel:
\* that returns at its guard, or runs up to its await.
Gemma3nChatEffect ==
    /\ ui.chat.effect
    /\ IF ui.chat.isModelLoaded \/ ui.chat.isInitializing
       THEN /\ ui' = [ui EXCEPT !.chat.effect = FALSE]
            /\ UNCHANGED <<svc, ctorArg, calls, life>>
       ELSE /\ ui' = [ui EXCEPT !.chat.isInitializing = TRUE,
                                !.chat.effect = TRUE]
            /\ textGenerator' = Reconfigured(ui.chat.config).textGenerator
            /\ isModelLoaded' = Reconfigured(ui.chat.config).isModelLoaded
            /\ config' = Reconfigured(ui.chat.config).config
            /\ ctorArg' = IF ui.chat.config = Null THEN ctorArg ELSE ui.chat.config
            /\ \E outcome \in InitializeOutcomes :
                   calls' = [calls EXCEPT ![2] = outcome]
            /\ life' = "used"

\* The rest of the component's initializeModel.
Gemma3nChatSettled ==
    /\ calls[2].op = "initializeModel" /\ Settled(calls[2])
    /\ ui' = IF calls[2].pc = "resolved"
             THEN [ui EXCEPT !.chat.isModelLoaded = TRUE,
                             !.chat.messages = <<[role |-> "assistant",
                                                  content |-> WelcomeMessage]>>,
                             !.chat.isInitializing = FALSE,
                             !.chat.effect = TRUE]
             ELSE [ui EXCEPT !.chat.alert = <<LoadModelErrorPrefix \o calls[2].error>>,
                             !.chat.isInitializing = FALSE,
                             !.chat.effect = TRUE,
                             !.chat.failed = TRUE]
    /\ calls' = [calls EXCEPT ![2] = Idle]
    /\ UNCHANGED <<svc, ctorArg, life>>

\* The component as mounted by AIScreen: its state, and its effect due.
Gemma3nChat ==
    [config |-> ScreenConfig,
     messages |-> <<>>, isLoading |-> FALSE,
     isModelLoaded |-> FALSE, isInitializing |-> FALSE,
     alert |-> Null, effect |-> TRUE, failed |-> FALSE, unloaded |-> FALSE]

InitUI ==
    /\ ctorArg = DefaultCtorArg
    /\ textGenerator = Gemma3nService(ctorArg).textGenerator
    /\ isModelLoaded = Gemma3nService(ctorArg).isModelLoaded
    /\ config = Gemma3nService(ctorArg).config
    /\ calls = [c \in Callers |-> Idle]
    /\ life = "fresh"
    /\ \E autoLoad \in BOOLEAN, cfg \in {Null, ExampleConfig} :
         ui = [hook |-> [autoLoad |-> autoLoad, config |-> cfg,
                         isLoaded |-> FALSE, isLoading |-> FALSE,
                         error |-> Null, modelInfo |-> Null,
                         effect |-> TRUE, failed |-> FALSE, trigger |-> "none",
                         unloaded |-> FALSE],
               chat |-> Gemma3nChat]

NextUI ==
    \/ useGemma3nEffect
    \/ handleLoadModel
    \/ loadModelSettled
    \/ useGemma3nUnloadModel
    \/ Gemma3nChatEffect
    \/ Gemma3nChatSettled
    \/ \E c \in {1, 2} : installHandle(c)
    \/ \E c \in {1, 2} : initializerThrows(c)
    \/ \E c \in {1, 2} : setLoaded(c)

SpecUI == InitUI /\ [][NextUI]_vars

(***************************************************************************)
(* SpecPlatform: one caller, whose initializeModel calls are made in any   *)
(* environment, a different one from call to call.                         *)
(***************************************************************************)

NextPlatform ==
    \/ \E env \in Envs : initializeModel(1, env)
    \/ installHandle(1)
    \/ setLoaded(1)
    \/ unloadModel(1)
    \/ Return(1)

SpecPlatform == InitText /\ [][NextPlatform]_vars

(***************************************************************************)
(* SpecChat: the Gemma3nChat component on the default instance.  Its       *)
(* initializeModel call is caller 2's; the chat call of sendMessage is     *)
(* caller 1's.  Another user of the instance may unload it at any time.    *)
(* The conversation is kept to MaxMessages messages before a send.         *)
(***************************************************************************)

\* The number of messages the conversation may hold when a message is sent.
MaxMessages == 4

\* ' what now '
T_padded ==
    <<" ","w","h","a","t"," ","n","o","w"," ">>

\* '  '
T_blank ==
    <<" "," ">>

\* What the user may have typed when pressing send.
InputTexts == {P_why, T_padded, T_blank}

\* sendMessage up to its await, past the guard of its first line: the user
\* message joins the conversation and gemma3nService.chat is called with
\* the conversation the render showed, followed by that message.
sendMessage(inputText) ==
    /\ trim(inputText) # <<>> /\ ~ui.chat.isLoading /\ ui.chat.isModelLoaded
    /\ calls[1] = Idle
    /\ Len(ui.chat.messages) < MaxMessages
    /\ LET userMessage == [role |-> "user", content |-> trim(inputText)]
           chatHistory == ui.chat.messages \o <<userMessage>>
       IN  /\ ui' = [ui EXCEPT !.chat.messages = Append(@, userMessage),
                               !.chat.isLoading = TRUE]
           /\ calls' = [calls EXCEPT ![1] =
                          IF notLoaded
                          THEN [op |-> "chat", pc |-> "rejected",
                                error |-> NotLoadedError, life |-> life]
                          ELSE [op |-> "chat", pc |-> "delay",
                                prompt |-> formatChatPrompt(chatHistory),
                                options |-> NoOptions, messages |-> chatHistory]]
    /\ UNCHANGED <<svc, ctorArg, life>>

\* The rest of sendMessage: the response, or the apology, joins the
\* conversation as it is by then.
sendMessageSettled ==
    /\ calls[1].op = "chat" /\ Settled(calls[1])
    /\ ui' = IF calls[1].pc = "resolved"
             THEN [ui EXCEPT !.chat.messages =
                                Append(@, [role |-> "assistant",
                                           content |-> calls[1].value]),
                             !.chat.isLoading = FALSE]
             ELSE [ui EXCEPT !.chat.messages =
                                Append(@, [role |-> "assistant",
                                           content |-> SorryMessage]),
                             !.chat.alert = <<GenerateResponseErrorPrefix
                                              \o calls[1].error>>,
                             !.chat.isLoading = FALSE]
    /\ calls' = [calls EXCEPT ![1] = Idle]
    /\ UNCHANGED <<svc, ctorArg, life>>

\* As clearChat, were the conversation emptied.
clearChatEmpty ==
    /\ ui' = [ui EXCEPT !.chat.messages = <<>>]
    /\ UNCHANGED <<svc, ctorArg, calls, life>>

clearChat ==
    /\ ui' = [ui EXCEPT !.chat.messages =
                           <<[role |-> "assistant", content |-> ClearedMessage]>>]
    /\ UNCHANGED <<svc, ctorArg, calls, life>>

InitChat ==
    /\ ctorArg = DefaultCtorArg
    /\ textGenerator = Gemma3nService(ctorArg).textGenerator
    /\ isModelLoaded = Gemma3nService(ctorArg).isModelLoaded
    /\ config = Gemma3nService(ctorArg).config
    /\ calls = [c \in {1, 2} |-> Idle]
    /\ life = "fresh"
    /\ ui = [chat |-> Gemma3nChat]

NextChat ==
    \/ Gemma3nChatEffect
    \/ installHandle(2)
    \/ initializerThrows(2)
    \/ setLoaded(2)
    \/ Gemma3nChatSettled
    \/ \E inputText \in InputTexts : sendMessage(inputText)
    \/ \E k \in Picks : generateTextResume(1, k)
    \/ sendMessageSettled
    \/ clearChat
    \/ unloadModel(2)
    \/ Return(2)

SpecChat == InitChat /\ [][NextChat]_vars

(***************************************************************************)
(* Steps of calls, as seen from outside: caller c starts a call of op,     *)
(* and caller c's call of op fails.                                        *)
(***************************************************************************)

Starts(c, op) == calls[c] = Idle /\ calls'[c].op = op

Fails(c, op) ==
    /\ calls[c].pc # "rejected"
    /\ calls'[c].op = op /\ calls'[c].pc = "rejected"

\* The first next() of caller c's stream.
FirstPull(c) ==
    /\ calls[c].op = "generateTextStream" /\ calls[c].pc = "created"
    /\ calls'[c].op = "generateTextStream" /\ calls'[c].pc # "created"

(***************************************************************************)
(* C1.  Called on a service that is not LOADED, generateText and chat,     *)
(* and generateTextStream at its first next(), fail with 'Model not        *)
(* loaded' and leave the flag, the handle and the config as they were.     *)
(***************************************************************************)
C1_NotLoadedRejected ==
    [][\A c \in DOMAIN calls :
          (/\ ~isModelLoaded
           /\ Starts(c, "generateText") \/ Starts(c, "chat") \/ FirstPull(c))
          => /\ calls'[c].pc = "rejected"
             /\ calls'[c].error = NotLoadedError
             /\ UNCHANGED svc]_vars

\* generateText was rejected on a service that had been loaded and then
\* unloaded, and a stream on a service never initialized.
C1_Witness ==
    \E c \in DOMAIN calls :
        /\ calls[c].op \in {"generateText", "chat", "generateTextStream"}
        /\ calls[c].pc = "rejected"
        /\ calls[c].error = NotLoadedError
        /\ calls[c].life = "unloaded"

C4_UnloadIdempotent ==
    [][\A c \in DOMAIN calls :
          Starts(c, "unloadModel")
          => /\ calls'[c].pc = "resolved"
             /\ textGenerator # Null => textGenerator' = Null /\ ~isModelLoaded'
             /\ textGenerator = Null => UNCHANGED svc
             /\ config' = config
             /\ afterUnload(Service') = Service']_vars

\* Two unloadModel calls have returned: one found a handle, one did not.
C4_Witness ==
    \E c, d \in DOMAIN calls :
        /\ calls[c].op = "unloadModel" /\ calls[c].pc = "resolved" /\ calls[c].had
        /\ calls[d].op = "unloadModel" /\ calls[d].pc = "resolved" /\ ~calls[d].had

(***************************************************************************)
(* C8.  analyzeImage and processAudio fail with their not-implemented      *)
(* error for every input and in every state of the service, and change     *)
(* neither the flag, the handle nor the config.                            *)
(***************************************************************************)
C8_StubsAlwaysFail ==
    [][\A c \in DOMAIN calls :
          /\ Starts(c, "analyzeImage")
             => /\ calls'[c].pc = "rejected" /\ calls'[c].error = ImageError
                /\ UNCHANGED svc
          /\ Starts(c, "processAudio")
             => /\ calls'[c].pc = "rejected" /\ calls'[c].error = AudioError
                /\ UNCHANGED svc]_vars

\* processAudio has failed on a loaded service while an initializeModel
\* call of another caller is in flight.
C8_Witness ==
    \E c, d \in DOMAIN calls :
        /\ calls[c].op = "processAudio" /\ calls[c].pc = "rejected"
        /\ calls[c].loaded
        /\ calls[d].op = "initializeModel" /\ calls[d].pc = "delay"

(***************************************************************************)
(* C10, as claimed.  A generateText or chat call ends by returning a       *)
(* response or by failing with 'Model not loaded', and in no other way.    *)
(***************************************************************************)
C10_TwoOutcomes ==
    \A c \in DOMAIN calls :
        (calls[c].op \in {"generateText", "chat"} /\ calls[c].pc = "rejected")
        => calls[c].error = NotLoadedError

(***************************************************************************)
(* C2.  After a successful initializeModel, getModelInfo reports           *)
(* isLoaded = true, the modelSize of the constructor's argument, and a     *)
(* config in which each field the caller gave has the caller's value and   *)
(* each field the caller omitted has its default: maxTokens 512,           *)
(* temperature 0.7 (7 tenths), topK 50, quantized true.                    *)
(***************************************************************************)
C2_InfoAfterInitialize ==
    \A c \in DOMAIN calls :
        (calls[c].op = "initializeModel" /\ calls[c].pc = "resolved")
        => LET info == getModelInfo
           IN  /\ info.isLoaded
               /\ info.modelSize = ctorArg.modelSize
               /\ DOMAIN info.config =
                      {"modelSize", "maxTokens", "temperature", "topK", "quantized"}
               /\ \A f \in DOMAIN ctorArg : info.config[f] = ctorArg[f]
               /\ "maxTokens" \notin DOMAIN ctorArg => info.config.maxTokens = 512
               /\ "temperature" \notin DOMAIN ctorArg => info.config.temperature = 7
               /\ "topK" \notin DOMAIN ctorArg => info.config.topK = 50
               /\ "quantized" \notin DOMAIN ctorArg => info.config.quantized = TRUE

\* initializeModel has succeeded on a service whose caller gave quantized
\* and omitted maxTokens, temperature and topK.
C2_Witness ==
    /\ calls[1].op = "initializeModel" /\ calls[1].pc = "resolved"
    /\ ctorArg = [modelSize |-> "E4B", quantized |-> FALSE]

(***************************************************************************)
(* The full response of a stream: what generateWithNativeModel returns     *)
(* for the stream's prompt, on the platform and with the template pick of  *)
(* its first next().                                                       *)
(***************************************************************************)
FullResponse(call) ==
    generateWithNativeModel(call.platform, call.prompt, call.options, call.pick)

IsStream(call) == call.op = "generateTextStream"

(***************************************************************************)
(* C5, as claimed.  A stream started on a loaded service yields N values,  *)
(* N the number of words of the full response split on white space; the    *)
(* i-th value is the first i of these words joined by spaces, and the      *)
(* last value is the full response.                                        *)
(***************************************************************************)
C5_WhitespaceWords ==
    \A c \in DOMAIN calls :
        (IsStream(calls[c]) /\ calls[c].pc \in {"yielded", "resolved"})
        => LET words == splitWhitespace(FullResponse(calls[c]))
           IN  /\ calls[c].i <= Len(words)
               /\ calls[c].value = join(SubSeq(words, 1, calls[c].i))
               /\ calls[c].pc = "resolved"
                  => /\ calls[c].i = Len(words)
                     /\ calls[c].value = FullResponse(calls[c])

(***************************************************************************)
(* C5, amended.  A stream started on a loaded service yields N values, N   *)
(* the number of pieces of the full response between single space          *)
(* characters (its spaces plus one: two adjacent spaces enclose an empty   *)
(* piece, and tabs and line breaks do not separate).  The i-th value is    *)
(* the full response up to its i-th space, each value strictly extends     *)
(* the one before, and the last value is the full response.                *)
(***************************************************************************)
Spaces(s) == Cardinality({k \in 1..Len(s) : s[k] = " "})

\* v is s cut just before the i-th space of s, or all of s.
UpToSpace(v, s, i) ==
    /\ Len(v) <= Len(s)
    /\ SubSeq(s, 1, Len(v)) = v
    /\ Spaces(v) = i - 1
    /\ Len(v) = Len(s) \/ s[Len(v) + 1] = " "

StrictlyExtends(v, w) == Len(w) < Len(v) /\ SubSeq(v, 1, Len(w)) = w

C5_StreamPrefixes ==
    /\ [](\A c \in DOMAIN calls :
            (IsStream(calls[c]) /\ calls[c].pc \in {"yielded", "resolved"})
            => /\ calls[c].i <= Spaces(FullResponse(calls[c])) + 1
               /\ UpToSpace(calls[c].value, FullResponse(calls[c]), calls[c].i)
               /\ calls[c].pc = "resolved"
                  => /\ calls[c].i = Spaces(FullResponse(calls[c])) + 1
                     /\ calls[c].value = FullResponse(calls[c]))
    /\ [][\A c \in DOMAIN calls :
            (IsStream(calls'[c]) /\ calls'[c] # calls[c])
            => /\ calls'[c].pc = "yielded"
                  => /\ calls[c].pc = "created" => calls'[c].i = 1
                     /\ calls[c].pc = "yielded"
                        => /\ calls'[c].i = calls[c].i + 1
                           /\ StrictlyExtends(calls'[c].value, calls[c].value)
               /\ calls'[c].pc = "resolved"
                  => /\ calls[c].pc = "yielded"
                     /\ calls'[c].i = calls[c].i
                     /\ calls'[c].value = calls[c].value]_vars

\* A stream has ended whose prompt, and so whose response, holds two
\* adjacent spaces.
C5_Witness ==
    \E c \in DOMAIN calls :
        /\ IsStream(calls[c]) /\ calls[c].pc = "resolved"
        /\ calls[c].prompt = P_spaces
        /\ calls[c].i = Spaces(FullResponse(calls[c])) + 1

(***************************************************************************)
(* C6.  With the same template pick, on the same platform, the last value  *)
(* a stream yields for a prompt is the string generateText returns for     *)
(* that prompt.                                                            *)
(***************************************************************************)
\* What generateTextResume settles a generateText call with.
Generated(platform, prompt, options, pick) ==
    generateWithNativeModel(platform, prompt, options, pick)

C6_StreamEndsWithGenerate ==
    \A c \in DOMAIN calls :
        (IsStream(calls[c]) /\ calls[c].pc = "resolved")
        => \A o \in Options :
              calls[c].value =
                  Generated(calls[c].platform, calls[c].prompt, o, calls[c].pick)

\* A stream has ended on android whose prompt the templates cut short.
C6_Witness ==
    \E c \in DOMAIN calls :
        /\ IsStream(calls[c]) /\ calls[c].pc = "resolved"
        /\ calls[c].platform = "android" /\ calls[c].prompt = P_long

(***************************************************************************)
(* C7.  formatChatPrompt returns, in input order, one turn per message,    *)
(* SYSTEM and USER under the 'user' marker and ASSISTANT under the 'model' *)
(* marker, then one open 'model' turn: for k messages it adds k turn       *)
(* closings and k + 1 turn openings to those the contents hold, and for    *)
(* no message it is the open turn alone.  chat settles with what           *)
(* generateText settles with for the formatted prompt.                     *)
(***************************************************************************)
TurnMarker(role) == IF role = "assistant" THEN ModelTurn ELSE UserTurn

\* The turns of the first n messages, built from the last one backwards.
RECURSIVE TurnsUpTo(_, _)
TurnsUpTo(messages, n) ==
    IF n = 0 THEN <<>>
    ELSE TurnsUpTo(messages, n - 1) \o TurnMarker(messages[n].role)
         \o messages[n].content \o TurnClose

\* The occurrences of marker in the contents of the first n messages.
RECURSIVE InContents(_, _, _)
InContents(messages, marker, n) ==
    IF n = 0 THEN 0
    ELSE InContents(messages, marker, n - 1)
         + Occurrences(messages[n].content, marker)

C9_NoAutomaticRetry ==
    /\ [](/\ ui.hook.failed => ui.hook.error # Null /\ ~ui.hook.isLoading
          /\ ui.chat.failed => ~ui.chat.isInitializing)
    /\ [][/\ (Starts(1, "initializeModel") /\ ui.hook.failed)
             => ui'.hook.trigger = "caller"
          /\ ~(Starts(2, "initializeModel") /\ ui.chat.failed)]_vars


(***************************************************************************)
(* C11.  The platform an initializeModel call resolves is a function of    *)
(* the environment of that call, by first match: with the Hermes marker,   *)
(* ios when the user agent contains 'iPhone' or 'iPad', else android when  *)
(* it contains 'Android', else ios (also with no navigator or no user      *)
(* agent); without the marker, web.  Resolving it changes no field of the  *)
(* service, and each call resolves it from its own environment, whatever   *)
(* platform an earlier call installed.                                     *)
(***************************************************************************)
HasApple(e) ==
    e.navigator /\ (includes(e.userAgent, UA_iPhone) \/ includes(e.userAgent, UA_iPad))

HasAndroid(e) == e.navigator /\ includes(e.userAgent, UA_Android)

C11_ResolvePlatform ==
    /\ [](\A c \in DOMAIN calls :
            (calls[c].op = "initializeModel" /\ calls[c].pc \in {"delay", "installed"})
            => LET e == calls[c].env
                   p == calls[c].platform
               IN  /\ ~e.hermes => p = "web"
                   /\ (e.hermes /\ HasApple(e)) => p = "ios"
                   /\ (e.hermes /\ ~HasApple(e) /\ HasAndroid(e)) => p = "android"
                   /\ (e.hermes /\ ~HasApple(e) /\ ~HasAndroid(e)) => p = "ios")
    /\ [][\A c \in DOMAIN calls :
            Starts(c, "initializeModel") => UNCHANGED svc]_vars

\* A call made under Hermes with a user agent naming both Android and iPhone
\* has resolved ios on a service whose handle, from an earlier call made in
\* a browser, is tagged web.
C11_Witness ==
    /\ textGenerator # Null /\ textGenerator.platform = "web"
    /\ calls[1].op = "initializeModel" /\ calls[1].pc = "delay"
    /\ calls[1].env.hermes /\ calls[1].env.userAgent = UA_Both
    /\ calls[1].platform = "ios"


(***************************************************************************)
(* C12.  The response of every generateText and chat call that returns     *)
(* ends with the one suffix the lower-cased prompt selects - 'how' before  *)
(* 'what' before 'why' before the default - and what precedes that suffix  *)
(* is the filled template alone, which ends with none of the four.         *)
(***************************************************************************)
EndsWith(s, t) == Len(t) <= Len(s) /\ SubSeq(s, Len(s) - Len(t) + 1, Len(s)) = t

SuffixOf(platform) ==
    [how     |-> SufHowPre \o PlatformText(platform) \o SufHowPost,
     what    |-> SufWhatPre \o capitalize(PlatformText(platform)) \o SufWhatPost,
     why     |-> SufWhyPre \o PlatformText(platform) \o SufWhyPost,
     default |-> SufDefPre \o PlatformText(platform) \o SufDefPost]

Selected(prompt) ==
    LET lower == toLowerCase(prompt)
    IN  IF includes(lower, KwHow) THEN "how"
        ELSE IF includes(lower, KwWhat) THEN "what"
        ELSE IF includes(lower, KwWhy) THEN "why"
        ELSE "default"

C12_OneSuffix ==
    \A c \in DOMAIN calls :
        (calls[c].op \in {"generateText", "chat"} /\ calls[c].pc = "resolved")
        => LET v    == calls[c].value
               suf  == SuffixOf(calls[c].platform)
               mine == suf[Selected(calls[c].prompt)]
               body == SubSeq(v, 1, Len(v) - Len(mine))
           IN  /\ EndsWith(v, mine)
               /\ \A k \in DOMAIN suf : EndsWith(v, suf[k]) => k = Selected(calls[c].prompt)
               /\ \A k \in DOMAIN suf : ~EndsWith(body, suf[k])
               /\ body = responsesFor(calls[c].platform)[calls[c].pick + 1][1]
                         \o substring(calls[c].prompt, PromptCut[calls[c].pick + 1])
                         \o responsesFor(calls[c].platform)[calls[c].pick + 1][2]

\* A call whose prompt contains 'why' and, after it, 'what' has returned a
\* response ending with the 'what' suffix.
C12_Witness ==
    /\ calls[1].op = "generateText" /\ calls[1].pc = "resolved"
    /\ calls[1].prompt = P_whywhat
    /\ EndsWith(calls[1].value, SuffixOf(calls[1].platform).what)


(***************************************************************************)
(* C13.  The step of an initializeModel call that installs the handle tags *)
(* it with the platform that call resolved, and no other step installs a   *)
(* handle: the tag is that of the installation that happened last.  Every  *)
(* response produced - by generateText or chat after the delay, by         *)
(* generateTextStream at its first next() - is produced from the handle    *)
(* installed at that step: it is one of the three templates of the tag's   *)
(* list, filled with the prompt, followed by a suffix that names the tag   *)
(* (capitalized in the 'what' suffix).  A tag outside the three lists      *)
(* would select the web list.                                              *)
(***************************************************************************)
StartsWith(s, t) == Len(t) <= Len(s) /\ SubSeq(s, 1, Len(t)) = t

\* The response a call holds: the value returned, or the words of a stream.
ResponseOf(call) ==
    IF call.op = "generateTextStream" THEN join(call.words) ELSE call.value

HasResponse(call) ==
    \/ call.op \in {"generateText", "chat"} /\ call.pc = "resolved"
    \/ call.op = "generateTextStream" /\ call.pc \in {"yielded", "resolved"}

C13_PlatformOfHandle ==
    /\ [](/\ responsesFor("desktop") = platformResponses.web
          /\ \A c \in DOMAIN calls :
               HasResponse(calls[c])
               => LET list == platformResponses[calls[c].platform]
                      v    == ResponseOf(calls[c])
                      name == PlatformText(calls[c].platform)
                  IN  /\ Len(list) = 3
                      /\ \E k \in 1..3 :
                           \E suf \in {SuffixOf(calls[c].platform)[x] :
                                         x \in DOMAIN SuffixOf(calls[c].platform)} :
                             /\ v = list[k][1]
                                    \o substring(calls[c].prompt, PromptCut[k])
                                    \o list[k][2] \o suf
                             /\ includes(suf, name) \/ includes(suf, capitalize(name)))
    /\ [][\A c \in DOMAIN calls :
            /\ (calls[c].op = "initializeModel" /\ calls[c].pc = "delay"
                /\ calls'[c].pc = "installed")
               => /\ textGenerator' # Null
                  /\ textGenerator'.platform = calls[c].platform
                  /\ calls[c].platform = getPlatform(calls[c].env)
            /\ (~HasResponse(calls[c]) /\ HasResponse(calls'[c]))
               => /\ textGenerator # Null
                  /\ calls'[c].platform = textGenerator.platform]_vars
    /\ [][(textGenerator' # textGenerator /\ textGenerator' # Null)
          => \E c \in DOMAIN calls :
               /\ calls[c].op = "initializeModel" /\ calls[c].pc = "delay"
               /\ calls'[c].pc = "installed"]_vars

\* Two initializeModel calls overlap; the one that resolved android has
\* installed its handle, the one that resolved ios installed its own after
\* it, and a generateText call has since returned a response from an ios
\* template while the android call has still to finish.
C13_Witness ==
    /\ calls[2].op = "initializeModel" /\ calls[2].pc = "installed"
    /\ calls[2].platform = "android"
    /\ textGenerator # Null /\ textGenerator.platform = "ios"
    /\ calls[1].op = "generateText" /\ calls[1].pc = "resolved"
    /\ calls[1].platform = "ios"
    /\ \E k \in 1..3 : StartsWith(calls[1].value, platformResponses.ios[k][1])


(***************************************************************************)
(* C14.  The options of a call and the config of the service do not reach  *)
(* the response.  Whatever the options of the call and whatever config the *)
(* service was built with, the response a call holds is the one value that *)
(* its platform, prompt and template pick determine - the value any other  *)
(* options would have given - and each value of a stream is a prefix of    *)
(* that value.                                                             *)
(***************************************************************************)
C14_OptionsIgnored ==
    \A c \in DOMAIN calls :
        HasResponse(calls[c])
        => /\ \A o \in TextOptions \union StreamOptions :
                ResponseOf(calls[c])
                  = generateWithNativeModel(calls[c].platform, calls[c].prompt,
                                            o, calls[c].pick)
           /\ calls[c].op = "generateTextStream"
              => calls[c].value
                   = streamPrefix(split(generateWithNativeModel(
                                            calls[c].platform, calls[c].prompt,
                                            NoOptions, calls[c].pick)),
                                  calls[c].i)

\* On a service built with maxTokens 256, a call given maxTokens 1 has
\* returned a response of more than one word.
C14_Witness ==
    /\ config.maxTokens = 256
    /\ calls[1].op = "generateText" /\ calls[1].pc = "resolved"
    /\ calls[1].options = [maxTokens |-> 1]
    /\ Len(split(calls[1].value)) > 1


(***************************************************************************)
(* C15.  Whenever the loaded flag is true a generator handle is installed, *)
(* so that a generateText call started while getModelInfo reports          *)
(* isLoaded passes its guard.                                              *)
(***************************************************************************)
C15_LoadedImpliesHandle ==
    /\ isModelLoaded => textGenerator # Null
    /\ getModelInfo.isLoaded => ~notLoaded


(***************************************************************************)
(* C16.  After an unloadModel that discarded the handle, and for as long   *)
(* as no initializeModel call has been started since (life is "unloaded",  *)
(* so that any initializeModel call still running was in flight when       *)
(* unloadModel was called), the service reports not loaded and the guard   *)
(* of generateText rejects.                                                *)
(***************************************************************************)
C16_UnloadedUntilNewInitialize ==
    life = "unloaded" => (~getModelInfo.isLoaded /\ notLoaded)


(***************************************************************************)
(* C17.  A stream that has yielded its first value holds the words of the  *)
(* response computed at that first next().  Whatever initializeModel and   *)
(* unloadModel calls run between its next() calls, each later next()       *)
(* yields the next prefix of those words or, after the last of them, ends  *)
(* the sequence; none fails.  No step of a stream - a next(), or the       *)
(* caller dropping it - changes the flag, the handle or the config.        *)
(***************************************************************************)
C17_StreamIndependent ==
    /\ [](\A c \in DOMAIN calls :
            (IsStream(calls[c]) /\ calls[c].pc \in {"yielded", "resolved"})
            => /\ calls[c].i \in 1..Len(calls[c].words)
               /\ calls[c].value = streamPrefix(calls[c].words, calls[c].i)
               /\ calls[c].pc = "resolved" => calls[c].i = Len(calls[c].words))
    /\ [][\A c \in DOMAIN calls :
            (calls[c].op = "generateTextStream" /\ calls'[c] # calls[c])
            => /\ UNCHANGED svc
               /\ calls[c].pc = "yielded"
                  => \/ calls'[c] = Idle
                     \/ /\ calls[c].i < Len(calls[c].words)
                        /\ calls'[c].pc = "yielded"
                        /\ calls'[c].words = calls[c].words
                        /\ calls'[c].i = calls[c].i + 1
                     \/ /\ calls[c].i = Len(calls[c].words)
                        /\ calls'[c].pc = "resolved"
                        /\ calls'[c].words = calls[c].words
                        /\ calls'[c].i = calls[c].i]_vars

\* A stream has run to its end on a service that was unloaded after the
\* stream's first next() and has not been initialized since.
C17_Witness ==
    /\ calls[1].op = "generateTextStream" /\ calls[1].pc = "resolved"
    /\ calls[1].i = Len(calls[1].words) /\ calls[1].i > 1
    /\ textGenerator = Null /\ ~isModelLoaded /\ life = "unloaded"
    /\ calls[2].op = "unloadModel" /\ calls[2].had


(***************************************************************************)
(* C18.  While a consumer's own loaded state is true - the hook's          *)
(* isLoaded, which only the hook's unloadModel clears, or the component's  *)
(* isModelLoaded with no unloadModel called by a consumer since - the      *)
(* shared service is loaded: getModelInfo reports isLoaded and the guard   *)
(* of generateText lets a call through.                                    *)
(***************************************************************************)
C18_ConsumerLoadedImpliesService ==
    /\ ui.hook.isLoaded => (getModelInfo.isLoaded /\ ~notLoaded)
    /\ (ui.chat.isModelLoaded /\ ~ui.chat.unloaded)
       => (getModelInfo.isLoaded /\ ~notLoaded)


(***************************************************************************)
(* C19.  The hook's unloadModel leaves isLoaded false and modelInfo null,  *)
(* and from then until a caller calls loadModel they stay so and the hook  *)
(* starts no initializeModel call on the service.                          *)
(***************************************************************************)
C19_UnloadedUntilLoadModel ==
    /\ [](ui.hook.unloaded => (~ui.hook.isLoaded /\ ui.hook.modelInfo = Null))
    /\ [][(Starts(1, "initializeModel") /\ ui.hook.unloaded)
          => ui'.hook.trigger = "caller"]_vars


(***************************************************************************)
(* C20.  The conversation Gemma3nChat sends to chat starts with the        *)
(* welcome message or the 'Chat cleared' message, as an assistant turn.    *)
(* Both contain 'How' and have more than 24 characters, the most a         *)
(* template embeds of the prompt after the 21 characters of the turn       *)
(* marker.  The response is therefore the one value that the platform,     *)
(* the template pick and that first message determine, whatever the user   *)
(* typed and whatever the conversation held, and it ends with the 'how'    *)
(* suffix.                                                                 *)
(***************************************************************************)
\* 'How'
KwHowCapital ==
    <<"H","o","w">>

Canned == {WelcomeMessage, ClearedMessage}

C20_ResponseIgnoresConversation ==
    /\ \A m \in Canned : includes(m, KwHowCapital) /\ Len(m) > 24
    /\ (calls[1].op = "chat" /\ calls[1].pc \in {"delay", "resolved"})
       => LET first == calls[1].messages[1]
          IN  /\ first.role = "assistant" /\ first.content \in Canned
              /\ calls[1].pc = "resolved"
                 => /\ calls[1].value
                         = generateWithNativeModel(calls[1].platform, formatTurn(first),
                                                   NoOptions, calls[1].pick)
                    /\ EndsWith(calls[1].value, SuffixOf(calls[1].platform).how)

\* The second message sent in a conversation that was cleared, a text with
\* 'what' in it, typed with spaces around it, has been answered.
C20_Witness ==
    /\ calls[1].op = "chat" /\ calls[1].pc = "resolved"
    /\ Len(calls[1].messages) >= 4
    /\ calls[1].messages[1].content = ClearedMessage
    /\ calls[1].messages[Len(calls[1].messages)].content = trim(T_padded)
    /\ \E k \in 1..Len(calls[1].messages) : calls[1].messages[k].content = P_why

=============================================================================
